---- MODULE Spec2Model ----
(***************************************************************************)
(* Training/evaluation orchestration of PaddleSpeech:                      *)
(*   - PWGUpdater / PWGEvaluator (parallel_wavegan_updater.py): the        *)
(*     adversarial schedule of the Parallel WaveGAN vocoder;               *)
(*   - Trainer / Tester (punctuation_restoration/training/trainer.py):     *)
(*     the epoch loop, checkpointing, resumption and rank coordination.    *)
(* Tensors are abstracted to the scalar losses the criterions return; the  *)
(* control flow, the counters and the order of optimizer calls are kept.   *)
(***************************************************************************)
EXTENDS Integers, Sequences, FiniteSets, TLC

\* ------------------------------------------------------------------ bounds
MaxWarmup == 2      \* discriminator_train_start_steps ranges over 0..MaxWarmup
MaxLambda == 2      \* lambda_adv ranges over 1..MaxLambda
MaxLoss   == 1      \* every criterion returns a loss in 0..MaxLoss
MaxCalls  == 4      \* StandardUpdater.update is called at most MaxCalls times

VARIABLES
    discriminator_train_start_steps, \* PWGUpdater.discriminator_train_start_steps
    lambda_adv,                      \* PWGUpdater.lambda_adv / PWGEvaluator.lambda_adv
    state,                           \* PWGUpdater.state : UpdaterState(iteration, epoch)
    optim,                           \* calls received by optimizer_g/d and scheduler_g/d
    upc,                             \* position inside StandardUpdater.update
    calls,                           \* history: one entry per update_core call
    last,                            \* what the last update_core / evaluate_core reported
    program,                         \* which executable runs: "pwg" or "trainer"
    peer,                            \* the rank of the process followed next to rank 0
    job,                             \* punctuation restoration: "train" (Trainer) or "test" (Tester)
    run,                             \* number of the job launched on the output directory
    config,                          \* config["training"] of the Trainer
    tr,                              \* per rank: the Trainer / Tester object and its position
    checkpoints,                     \* the checkpoint directory: records written, oldest first
    outputs                          \* other files of the output directory, with their writers

pwgvars == <<discriminator_train_start_steps, lambda_adv, state, optim, upc, calls, last>>
trvars == <<peer, job, run, config, tr, checkpoints, outputs>>
vars == <<program, pwgvars, trvars>>

\* ---------------------------------------------------------------- batches
\* A batch is abstracted to the losses the criterions return on it.
Batches == [sc_loss : 0..MaxLoss, mag_loss : 0..MaxLoss, adv_loss : 0..MaxLoss,
            real_loss : 0..MaxLoss, fake_loss : 0..MaxLoss]

\* --------------------------------------------------- PWGUpdater.update_core
\* line 107: the gate of the adversarial term of the generator loss
AdversarialGate(iteration, start_steps) == iteration > start_steps

\* line 131: the gate of the discriminator update
DiscriminatorGate_ge(iteration, start_steps) == iteration >= start_steps
DiscriminatorGate(iteration, start_steps) == iteration > start_steps

\* lines 91-118: gen_loss = 0.0; gen_loss += sc_loss + mag_loss;
\* if gate: gen_loss += lambda_adv * adv_loss
UpdaterGenLoss_always_adv(batch, adv) ==
    (0 + (batch.sc_loss + batch.mag_loss)) + lambda_adv * batch.adv_loss
UpdaterGenLoss(batch, adv) ==
    LET gen_loss0 == 0
        gen_loss1 == gen_loss0 + (batch.sc_loss + batch.mag_loss)
    IN  IF adv THEN gen_loss1 + lambda_adv * batch.adv_loss ELSE gen_loss1

\* line 138 and line 220: dis_loss = real_loss + fake_loss
DisLoss(batch) == batch.real_loss + batch.fake_loss

\* lines 120-127: the generator step
GeneratorEvents ==
    <<"optimizer_g.clear_grad", "gen_loss.backward", "optimizer_g.step", "scheduler_g.step">>

\* lines 146-150: the discriminator step
DiscriminatorEvents ==
    <<"optimizer_d.clear_grad", "dis_loss.backward", "optimizer_d.step", "scheduler_d.step">>

EventNames == {GeneratorEvents[i] : i \in 1..Len(GeneratorEvents)} \cup
              {DiscriminatorEvents[i] : i \in 1..Len(DiscriminatorEvents)}

\* The calls the optimizers and schedulers have received, after more events.
RECURSIVE Apply(_, _)
Apply(o, evs) ==
    IF evs = <<>> THEN o
    ELSE Apply([o EXCEPT ![Head(evs)] = @ + 1], Tail(evs))

\* lines 76-153: the whole of update_core on one batch. The result holds the
\* UpdaterState it leaves, the optimizer and scheduler calls it makes, in
\* order, the losses_dict it reports (-1: key absent) and the losses on which
\* backward() is called (-1: not called).
update_core_d_first(batch) ==
    LET adv == AdversarialGate(state.iteration, discriminator_train_start_steps)
        dis == DiscriminatorGate(state.iteration, discriminator_train_start_steps)
        gen_loss == UpdaterGenLoss(batch, adv)
    IN  [state |-> state,
         events |-> (IF dis THEN DiscriminatorEvents ELSE <<>>) \o GeneratorEvents,
         losses_dict |->
            [spectral_convergence_loss |-> batch.sc_loss,
             log_stft_magnitude_loss |-> batch.mag_loss,
             adversarial_loss |-> IF adv THEN batch.adv_loss ELSE -1,
             generator_loss |-> gen_loss,
             real_loss |-> IF dis THEN batch.real_loss ELSE -1,
             fake_loss |-> IF dis THEN batch.fake_loss ELSE -1,
             discriminator_loss |-> IF dis THEN DisLoss(batch) ELSE -1],
         gen_backward |-> gen_loss,
         dis_backward |-> IF dis THEN DisLoss(batch) ELSE -1]
update_core(batch) ==
    LET adv == AdversarialGate(state.iteration, discriminator_train_start_steps)
        dis == DiscriminatorGate(state.iteration, discriminator_train_start_steps)
        gen_loss == UpdaterGenLoss(batch, adv)
    IN  [state |-> state,
         events |-> GeneratorEvents \o (IF dis THEN DiscriminatorEvents ELSE <<>>),
         losses_dict |->
            [spectral_convergence_loss |-> batch.sc_loss,
             log_stft_magnitude_loss |-> batch.mag_loss,
             adversarial_loss |-> IF adv THEN batch.adv_loss ELSE -1,
             generator_loss |-> gen_loss,
             real_loss |-> IF dis THEN batch.real_loss ELSE -1,
             fake_loss |-> IF dis THEN batch.fake_loss ELSE -1,
             discriminator_loss |-> IF dis THEN DisLoss(batch) ELSE -1],
         gen_backward |-> gen_loss,
         dis_backward |-> IF dis THEN DisLoss(batch) ELSE -1]

\* ------------------------------------------------ PWGEvaluator.evaluate_core
\* lines 200, 211: gen_loss = lambda_adv * adv_loss; gen_loss += sc_loss + mag_loss
EvaluatorGenLoss(batch) ==
    LET gen_loss0 == lambda_adv * batch.adv_loss
    IN  gen_loss0 + (batch.sc_loss + batch.mag_loss)

\* lines 180-231: the whole of evaluate_core on one batch: forward passes and
\* reports only; the evaluator holds no optimizer, scheduler or UpdaterState.
evaluate_core(batch) ==
    [state |-> state, events |-> <<>>,
     losses_dict |->
        [spectral_convergence_loss |-> batch.sc_loss,
         log_stft_magnitude_loss |-> batch.mag_loss,
         adversarial_loss |-> batch.adv_loss,
         generator_loss |-> EvaluatorGenLoss(batch),
         real_loss |-> batch.real_loss,
         fake_loss |-> batch.fake_loss,
         discriminator_loss |-> DisLoss(batch)],
     gen_backward |-> -1,
     dis_backward |-> -1]

\* StandardUpdater.update: read a batch, call update_core, then
\* state.iteration += 1.
StandardUpdater_iteration(st) == [st EXCEPT !.iteration = @ + 1]

\* ------------------------------------------------------------ PWG actions
PWGInit ==
    /\ discriminator_train_start_steps \in 0..MaxWarmup
    /\ lambda_adv \in 1..MaxLambda
    /\ state = [iteration |-> 0, epoch |-> 0]
    /\ optim = [e \in EventNames |-> 0]
    /\ upc = "idle"
    /\ calls = <<>>
    /\ last = [op |-> "none"]

\* PWGUpdater.update_core, called by StandardUpdater.update on the next batch
PWGUpdater_update_core ==
    /\ program = "pwg"
    /\ upc = "idle"
    /\ state.iteration < MaxCalls
    /\ \E batch \in Batches :
         LET r == update_core(batch) IN
           /\ state' = r.state
           /\ optim' = Apply(optim, r.events)
           /\ calls' = Append(calls, [iteration |-> state.iteration, events |-> r.events,
                                      adversarial |-> r.losses_dict.adversarial_loss # -1])
           /\ last' = [op |-> "update_core", batch |-> batch,
                       iteration |-> state.iteration, out |-> r]
    /\ upc' = "core_done"
    /\ UNCHANGED <<program, trvars, discriminator_train_start_steps, lambda_adv>>

\* the rest of StandardUpdater.update: state.iteration += 1
StandardUpdater_update_finish ==
    /\ program = "pwg"
    /\ upc = "core_done"
    /\ state' = StandardUpdater_iteration(state)
    /\ upc' = "idle"
    /\ last' = [op |-> "update_finish"]
    /\ UNCHANGED <<program, trvars, discriminator_train_start_steps, lambda_adv, optim, calls>>

\* PWGEvaluator.evaluate_core on a validation batch, between two updates
PWGEvaluator_evaluate_core ==
    /\ program = "pwg"
    /\ upc = "idle"
    /\ \E batch \in Batches :
         LET r == evaluate_core(batch) IN
           /\ state' = r.state
           /\ optim' = Apply(optim, r.events)
           /\ last' = [op |-> "evaluate_core", batch |-> batch,
                       iteration |-> state.iteration, out |-> r]
    /\ upc' = "eval_done"
    /\ UNCHANGED <<program, trvars, discriminator_train_start_steps, lambda_adv, calls>>

\* the rest of StandardEvaluator.evaluate for the batch: the report is logged
StandardEvaluator_evaluate_finish ==
    /\ program = "pwg"
    /\ upc = "eval_done"
    /\ upc' = "idle"
    /\ last' = [op |-> "evaluate_finish"]
    /\ UNCHANGED <<program, trvars, discriminator_train_start_steps, lambda_adv, state,
                   optim, calls>>

\* ======================================================= Trainer / Tester
MaxRank     == 1    \* the processes of a job have ranks 0..MaxRank
MaxRuns     == 2    \* jobs launched one after the other on one output directory
MaxEpoch    == 2    \* config["training"]["n_epoch"] ranges over 1..MaxEpoch
NumBatches  == 2    \* len(train_loader)
MaxInterval == 2    \* valid_interval, save_interval, max_iteration range over 1..MaxInterval

\* The processes followed: rank 0 and one other rank. The processes of a job
\* share nothing but the output directory, so the remaining ranks are left out.
Ranks == {0, peer}
AllRanks == 0..MaxRank

\* tags of a checkpoint: "init", or an int (an epoch or an iteration), or None
InitTag == [name |-> "init", n |-> 0]
IntTag(n) == [name |-> "int", n |-> n]
NoneTag == [name |-> "None", n |-> 0]

\* infos=None of save(); a value of -1 stands for an absent key
NoInfos == [val_loss |-> -1, F1 |-> -1, step |-> -1, epoch |-> -1, lr |-> -1]

\* lines 115-123: Trainer.__init__ (Tester.__init__ calls it, lines 529-530).
\* Besides the attributes: pc, the position of the process; batch_index,
\* total_loss and F1_score, locals of train(); lr_last_epoch, the position of
\* lr_scheduler; mode, the mode of the model; optimizer_steps and backwards,
\* the calls of optimizer.step() and loss.backward(); save_calls, the calls of
\* save() by the line of train() or run() that made them; start_iteration and
\* start_epoch, the counters as resume_or_scratch left them (-1 before it);
\* training_done_logged, whether line 278 logged "Training Done.".
Trainer_init ==
    [pc |-> "new", iteration |-> 0, epoch |-> 0, visualizer |-> "None",
     lr_last_epoch |-> 0, optimizer_steps |-> 0, backwards |-> 0, mode |-> "train",
     from_scratch |-> "None", batch_index |-> 0, total_loss |-> -1, F1_score |-> -1,
     save_calls |-> <<>>, start_iteration |-> -1, start_epoch |-> -1,
     training_done_logged |-> FALSE]

\* mp_tools.rank_zero_only: the decorated method runs on rank 0 and returns
\* at once, with no effect, on every other rank
rank_zero_only(rank, result, unchanged) == IF rank # 0 THEN unchanged ELSE result

\* line 170: optimizer.get_lr(), the value of ExponentialDecay at its current
\* position lr * lr_decay ^ last_epoch, identified with that position
get_lr(self) == self.lr_last_epoch

\* Checkpoint.add_checkpoint: writes the record under the checkpoint directory
add_checkpoint(ckpts, tag, infos, rank, site) ==
    Append(ckpts, [tag |-> tag, infos |-> infos, rank |-> rank, run |-> run, site |-> site])

\* Checkpoint.load_parameters with checkpoint_path=None: the infos of the
\* latest checkpoint of the directory, or None when there is none
load_parameters(ckpts) ==
    IF ckpts = <<>> THEN NoInfos ELSE ckpts[Len(ckpts)].infos

\* lines 157-174: Trainer.save; site names the call (line 214, 260 or 274)
save_on_every_rank(self, rank, tag, infos, ckpts, site) ==
    add_checkpoint(ckpts, IF tag = NoneTag THEN IntTag(self.iteration) ELSE tag,
                   [infos EXCEPT !.step = self.iteration, !.epoch = self.epoch,
                                 !.lr = get_lr(self)], rank, site)
save(self, rank, tag, infos, ckpts, site) ==
    rank_zero_only(rank,
        add_checkpoint(ckpts, IF tag = NoneTag THEN IntTag(self.iteration) ELSE tag,
                       [infos EXCEPT !.step = self.iteration, !.epoch = self.epoch,
                                     !.lr = get_lr(self)], rank, site),
        ckpts)

\* lines 176-199: Trainer.resume_or_scratch
resume_or_scratch_keeps_step(self, infos) ==
    IF infos # NoInfos
    THEN [self EXCEPT !.epoch = infos.epoch, !.from_scratch = "False"]
    ELSE [self EXCEPT !.iteration = 0, !.epoch = 0, !.from_scratch = "True"]
resume_or_scratch(self, infos) ==
    IF infos # NoInfos
    THEN [self EXCEPT !.iteration = infos.step, !.epoch = infos.epoch,
                      !.from_scratch = "False"]
    ELSE [self EXCEPT !.iteration = 0, !.epoch = 0, !.from_scratch = "True"]

\* lines 201-206: Trainer.new_epoch
new_epoch_by_two(self) == [self EXCEPT !.epoch = @ + 2]
new_epoch(self) == [self EXCEPT !.epoch = @ + 1]

\* lines 357-397: Trainer.train_batch
train_batch_no_count(self) ==
    [self EXCEPT !.backwards = @ + 1, !.optimizer_steps = @ + 1]
train_batch_counts_twice(self) ==
    [self EXCEPT !.backwards = @ + 1, !.optimizer_steps = @ + 1, !.iteration = @ + 2]
train_batch(self) ==
    [self EXCEPT !.backwards = @ + 1, !.optimizer_steps = @ + 1, !.iteration = @ + 1]

\* lines 399-444: Trainer.valid, returning (total_loss / num_seen_utts, F1_score)
valid_trains(self, loss, f1) ==
    [self EXCEPT !.mode = "eval", !.total_loss = loss, !.F1_score = f1,
                 !.backwards = @ + 1, !.optimizer_steps = @ + 1, !.iteration = @ + 1]
valid(self, loss, f1) ==
    [self EXCEPT !.mode = "eval", !.total_loss = loss, !.F1_score = f1]

\* lines 324-329: Trainer.destory
destory(self, rank) ==
    rank_zero_only(rank,
        IF self.visualizer # "None" THEN [self EXCEPT !.visualizer = "closed"] ELSE self,
        self)

\* lines 331-345: Trainer.setup_visualizer
setup_visualizer(self, rank) ==
    rank_zero_only(rank, [self EXCEPT !.visualizer = "open"], self)

\* lines 347-355: Trainer.dump_config
dump_config(out, rank) ==
    rank_zero_only(rank, [out EXCEPT !.config_yaml = Append(@, rank)], out)

\* lines 460-472: Trainer.setup_model; LRScheduler starts at position 0
setup_model(self) == [self EXCEPT !.lr_last_epoch = 0, !.optimizer_steps = 0]

\* lines 125-143: Trainer.setup
setup(self, rank) ==
    [setup_model(setup_visualizer(self, rank)) EXCEPT !.iteration = 0, !.epoch = 0]

\* lines 584-596: Tester.setup (no dump_config, no visualizer, no optimizer)
Tester_setup(self) == [self EXCEPT !.iteration = 0, !.epoch = 0]

\* lines 532-563: Tester.test; the model's forward passes and the report
test(self, rank) ==
    rank_zero_only(rank, [self EXCEPT !.mode = "eval"], self)

\* line 543: open(self.args.result_file, 'w') inside test
test_result_file(out, rank) ==
    rank_zero_only(rank, [out EXCEPT !.result_file = Append(@, rank)], out)

\* lines 271-277: how Trainer.run leaves: "done" when train() returned,
\* "crashed" when an exception left train(), "exited" after exit(-1);
\* destory() runs in the finally clause of each
run_leaves_without_finally(self, rank, how) ==
    [(IF how = "done" THEN destory(self, rank) ELSE self)
        EXCEPT !.pc = how, !.total_loss = -1, !.F1_score = -1]
run_leaves(self, rank, how) ==
    [destory(self, rank) EXCEPT !.pc = how, !.total_loss = -1, !.F1_score = -1]

\* ---------------------------------------------------------------- actions
TrainPcs == {"resumed", "epoch_top", "batches", "validated", "saved"}
EndPcs == {"done", "crashed", "exited", "tested"}

\* config["training"]: n_epoch is the only key train() reads
Configs == [n_epoch : 0..MaxEpoch]

TrainerInit ==
    /\ peer \in 1..MaxRank
    /\ job \in {"train", "test"}
    /\ run = 1
    /\ config \in Configs
    /\ tr = [r \in Ranks |-> Trainer_init]
    /\ checkpoints = <<>>
    /\ outputs = [config_yaml |-> <<>>, result_file |-> <<>>]

\* exp.setup() of the process of rank r
Trainer_setup(r) ==
    /\ program = "trainer"
    /\ r \in Ranks
    /\ job = "train"
    /\ tr[r].pc = "new"
    /\ tr' = [tr EXCEPT ![r] = [setup(@, r) EXCEPT !.pc = "ready"]]
    /\ outputs' = dump_config(outputs, r)
    /\ UNCHANGED <<program, pwgvars, peer, job, run, config, checkpoints>>

\* line 210 (Trainer.train) and line 578 (Tester.run_test): resume_or_scratch
Trainer_resume_or_scratch(r) ==
    /\ program = "trainer"
    /\ r \in Ranks
    /\ tr[r].pc = "ready"
    /\ LET self == resume_or_scratch(tr[r], load_parameters(checkpoints)) IN
          tr' = [tr EXCEPT ![r] = [self EXCEPT !.start_iteration = self.iteration,
                                               !.start_epoch = self.epoch,
                                               !.pc = "resumed"]]
    /\ UNCHANGED <<program, pwgvars, peer, job, run, config, checkpoints, outputs>>

\* lines 212-224: save the init model when from scratch, then
\* lr_scheduler.step(self.iteration)
Trainer_train_begin(r) ==
    /\ program = "trainer"
    /\ r \in Ranks
    /\ job = "train"
    /\ tr[r].pc = "resumed"
    /\ checkpoints' = IF tr[r].from_scratch = "True"
                      THEN save(tr[r], r, InitTag, NoInfos, checkpoints, "init")
                      ELSE checkpoints
    /\ tr' = [tr EXCEPT ![r] = [@ EXCEPT !.lr_last_epoch = tr[r].iteration,
                                         !.save_calls = IF tr[r].from_scratch = "True"
                                                        THEN Append(@, "init") ELSE @,
                                         !.pc = "epoch_top"]]
    /\ UNCHANGED <<program, pwgvars, peer, job, run, config, outputs>>

\* lines 225-228: the while condition holds: a new pass over the train loader
Trainer_epoch_begin(r) ==
    /\ program = "trainer"
    /\ r \in Ranks
    /\ job = "train"
    /\ tr[r].pc = "epoch_top"
    /\ tr[r].epoch < config.n_epoch
    /\ tr' = [tr EXCEPT ![r] = [@ EXCEPT !.mode = "train", !.batch_index = 0,
                                         !.pc = "batches"]]
    /\ UNCHANGED <<program, pwgvars, peer, job, run, config, checkpoints, outputs>>

\* lines 231-241: one batch of the train loader
Trainer_train_batch(r) ==
    /\ program = "trainer"
    /\ r \in Ranks
    /\ job = "train"
    /\ tr[r].pc = "batches"
    /\ tr[r].batch_index < NumBatches
    /\ tr' = [tr EXCEPT ![r] = [train_batch(@) EXCEPT !.batch_index = @ + 1]]
    /\ UNCHANGED <<program, pwgvars, peer, job, run, config, checkpoints, outputs>>

\* lines 242-253: the train loader is exhausted; validation
Trainer_valid(r) ==
    /\ program = "trainer"
    /\ r \in Ranks
    /\ job = "train"
    /\ tr[r].pc = "batches"
    /\ tr[r].batch_index = NumBatches
    /\ \E loss \in 0..MaxLoss, f1 \in 0..MaxLoss :
          tr' = [tr EXCEPT ![r] = [valid(@, loss, f1) EXCEPT !.pc = "validated"]]
    /\ UNCHANGED <<program, pwgvars, peer, job, run, config, checkpoints, outputs>>

\* lines 254-262: with a visualizer, add_scalar(value=cv_loss) raises NameError
\* (cv_loss is not defined), which leaves train() and run(); without one the
\* checkpoint of the epoch is saved. total_loss and F1_score are locals of
\* train() that are not read again before the next validation.
Trainer_epoch_save(r) ==
    /\ program = "trainer"
    /\ r \in Ranks
    /\ job = "train"
    /\ tr[r].pc = "validated"
    /\ IF tr[r].visualizer # "None"
       THEN /\ tr' = [tr EXCEPT ![r] = run_leaves(@, r, "crashed")]
            /\ UNCHANGED checkpoints
       ELSE /\ checkpoints' = save(tr[r], r, IntTag(tr[r].epoch),
                                   [NoInfos EXCEPT !.val_loss = tr[r].total_loss,
                                                   !.F1 = tr[r].F1_score],
                                   checkpoints, "epoch")
            /\ tr' = [tr EXCEPT ![r] = [@ EXCEPT !.total_loss = -1, !.F1_score = -1,
                                                 !.save_calls = Append(@, "epoch"),
                                                 !.pc = "saved"]]
    /\ UNCHANGED <<program, pwgvars, peer, job, run, config, outputs>>

\* lines 263-265: lr_scheduler.step(); new_epoch()
Trainer_new_epoch(r) ==
    /\ program = "trainer"
    /\ r \in Ranks
    /\ job = "train"
    /\ tr[r].pc = "saved"
    /\ tr' = [tr EXCEPT ![r] = [new_epoch([@ EXCEPT !.lr_last_epoch = @ + 1])
                                 EXCEPT !.pc = "epoch_top"]]
    /\ UNCHANGED <<program, pwgvars, peer, job, run, config, checkpoints, outputs>>

\* line 225 fails, train() returns; lines 276-278: destory(), "Training Done."
Trainer_train_returns(r) ==
    /\ program = "trainer"
    /\ r \in Ranks
    /\ job = "train"
    /\ tr[r].pc = "epoch_top"
    /\ ~(tr[r].epoch < config.n_epoch)
    /\ tr' = [tr EXCEPT ![r] = [run_leaves(@, r, "done") EXCEPT
                                    !.training_done_logged = TRUE]]
    /\ UNCHANGED <<program, pwgvars, peer, job, run, config, checkpoints, outputs>>

\* lines 273-277: KeyboardInterrupt inside train(): save(), exit(-1), destory()
Trainer_KeyboardInterrupt(r) ==
    /\ program = "trainer"
    /\ r \in Ranks
    /\ job = "train"
    /\ tr[r].pc \in TrainPcs
    /\ checkpoints' = save(tr[r], r, NoneTag, NoInfos, checkpoints, "interrupt")
    /\ tr' = [tr EXCEPT ![r] = [run_leaves(@, r, "exited") EXCEPT
                                    !.save_calls = Append(@, "interrupt")]]
    /\ UNCHANGED <<program, pwgvars, peer, job, run, config, outputs>>

\* Tester: exp.setup() of the process of rank r
Tester_do_setup(r) ==
    /\ program = "trainer"
    /\ r \in Ranks
    /\ job = "test"
    /\ tr[r].pc = "new"
    /\ tr' = [tr EXCEPT ![r] = [Tester_setup(@) EXCEPT !.pc = "ready"]]
    /\ UNCHANGED <<program, pwgvars, peer, job, run, config, checkpoints, outputs>>

\* lines 579-580: self.test() after resume_or_scratch
Tester_test(r) ==
    /\ program = "trainer"
    /\ r \in Ranks
    /\ job = "test"
    /\ tr[r].pc = "resumed"
    /\ tr' = [tr EXCEPT ![r] = [test(@, r) EXCEPT !.pc = "tested"]]
    /\ outputs' = test_result_file(outputs, r)
    /\ UNCHANGED <<program, pwgvars, peer, job, run, config, checkpoints>>

\* every process of the job has ended; a new job is launched on the same
\* output directory with fresh Trainer / Tester objects
Relaunch ==
    /\ program = "trainer"
    /\ run < MaxRuns
    /\ \A r \in Ranks : tr[r].pc \in EndPcs
    /\ run' = run + 1
    /\ job' \in {"train", "test"}
    /\ tr' = [r \in Ranks |-> Trainer_init]
    /\ UNCHANGED <<program, pwgvars, peer, config, checkpoints, outputs>>

\* ------------------------------------------------------- the whole model
\* One of the two executables runs; the other one's state stays as built.
Init ==
    /\ program \in {"pwg", "trainer"}
    /\ IF program = "pwg"
       THEN /\ PWGInit
            /\ peer = 1 /\ job = "train" /\ run = 1
            /\ config = [n_epoch |-> 1]
            /\ tr = [r \in Ranks |-> Trainer_init]
            /\ checkpoints = <<>>
            /\ outputs = [config_yaml |-> <<>>, result_file |-> <<>>]
       ELSE /\ TrainerInit
            /\ discriminator_train_start_steps = 0
            /\ lambda_adv = 1
            /\ state = [iteration |-> 0, epoch |-> 0]
            /\ optim = [e \in EventNames |-> 0]
            /\ upc = "idle"
            /\ calls = <<>>
            /\ last = [op |-> "none"]

Next ==
    \/ PWGUpdater_update_core
    \/ StandardUpdater_update_finish
    \/ PWGEvaluator_evaluate_core
    \/ StandardEvaluator_evaluate_finish
    \/ \E r \in AllRanks : Trainer_setup(r)
    \/ \E r \in AllRanks : Trainer_resume_or_scratch(r)
    \/ \E r \in AllRanks : Trainer_train_begin(r)
    \/ \E r \in AllRanks : Trainer_epoch_begin(r)
    \/ \E r \in AllRanks : Trainer_train_batch(r)
    \/ \E r \in AllRanks : Trainer_valid(r)
    \/ \E r \in AllRanks : Trainer_epoch_save(r)
    \/ \E r \in AllRanks : Trainer_new_epoch(r)
    \/ \E r \in AllRanks : Trainer_train_returns(r)
    \/ \E r \in AllRanks : Trainer_KeyboardInterrupt(r)
    \/ \E r \in AllRanks : Tester_do_setup(r)
    \/ \E r \in AllRanks : Tester_test(r)
    \/ Relaunch

Spec == Init /\ [][Next]_vars

\* ================================================================ claims
\* ---- helpers on the history of update_core calls
PostWarmup(c) == c.iteration > discriminator_train_start_steps
Count(c, e) == Cardinality({k \in DOMAIN c.events : c.events[k] = e})
Position(c, e) == CHOOSE k \in DOMAIN c.events : c.events[k] = e
DiscriminatorUpdated(c) == Count(c, "optimizer_d.step") > 0 \/ Count(c, "scheduler_d.step") > 0
WarmupCalls == {i \in DOMAIN calls : ~calls[i].adversarial /\ ~DiscriminatorUpdated(calls[i])}
RECURSIVE Flatten(_)
Flatten(cs) == IF cs = <<>> THEN <<>> ELSE Head(cs).events \o Flatten(Tail(cs))
IsOptimizerStep(e) == e \in {"optimizer_g.step", "optimizer_d.step"}
OptimizerSteps == SelectSeq(Flatten(calls), IsOptimizerStep)

\* C1 (as claimed): once a call has used the adversarial term or updated the
\* discriminator, the number of initial generator-only calls equals
\* discriminator_train_start_steps.
C1_WarmupCallsEqualStartSteps ==
    program = "pwg" =>
        ((\E i \in DOMAIN calls : calls[i].adversarial \/ DiscriminatorUpdated(calls[i]))
            => Cardinality(WarmupCalls) = discriminator_train_start_steps)

\* C2: in every update_core call the adversarial term is used, and the
\* discriminator optimizer and scheduler are stepped, exactly when
\* state.iteration > discriminator_train_start_steps; the two gates agree in
\* each call; a call after one that passed the gate passes it too.
C2_DiscriminatorGatedBehindWarmup ==
    \A i \in DOMAIN calls :
        /\ calls[i].adversarial <=> PostWarmup(calls[i])
        /\ Count(calls[i], "optimizer_d.step") > 0 <=> PostWarmup(calls[i])
        /\ Count(calls[i], "scheduler_d.step") > 0 <=> PostWarmup(calls[i])
        /\ calls[i].adversarial <=> DiscriminatorUpdated(calls[i])
        /\ \A j \in DOMAIN calls :
              (i < j /\ DiscriminatorUpdated(calls[i]))
                  => (DiscriminatorUpdated(calls[j]) /\ calls[j].adversarial)

\* two calls in a row passed the gate after at least one warm-up call
C2_Witness ==
    /\ program = "pwg"
    /\ WarmupCalls # {}
    /\ \E i, j \in DOMAIN calls :
          i < j /\ DiscriminatorUpdated(calls[i]) /\ calls[j].adversarial

\* every call steps the generator optimizer and scheduler exactly once; a call
\* past warm-up steps the discriminator optimizer and scheduler exactly once,
\* after the generator step; a warm-up call does not touch the discriminator
C3_PerCall ==
    \A i \in DOMAIN calls :
        LET c == calls[i] IN
        /\ Count(c, "optimizer_g.step") = 1 /\ Count(c, "scheduler_g.step") = 1
        /\ PostWarmup(c) =>
              /\ Count(c, "optimizer_d.step") = 1 /\ Count(c, "scheduler_d.step") = 1
              /\ Position(c, "optimizer_g.step") < Position(c, "optimizer_d.step")
              /\ Position(c, "scheduler_g.step") < Position(c, "optimizer_d.step")
              /\ Position(c, "optimizer_d.step") < Position(c, "scheduler_d.step")
        /\ ~PostWarmup(c) => ~DiscriminatorUpdated(c)

\* after k calls the generator scheduler was stepped k times, the
\* discriminator scheduler once per post-warm-up call
C3_Counts ==
    /\ optim["optimizer_g.step"] = Len(calls) /\ optim["scheduler_g.step"] = Len(calls)
    /\ optim["scheduler_d.step"] = Cardinality({i \in DOMAIN calls : PostWarmup(calls[i])})
    /\ optim["optimizer_d.step"] = optim["scheduler_d.step"]

\* C3 (as claimed): every call steps the generator optimizer and scheduler
\* once, a post-warm-up call then steps the discriminator optimizer and
\* scheduler once, so over any sequence of calls the optimizer steps alternate
\* g, d, g, d, ...; the counts are those of C3_Counts.
C3_StepsAlternateOverAnyCalls ==
    /\ C3_PerCall
    /\ C3_Counts
    /\ \A k \in DOMAIN OptimizerSteps :
          OptimizerSteps[k] = IF k % 2 = 1 THEN "optimizer_g.step" ELSE "optimizer_d.step"

\* C3 (amended): per call as claimed; the warm-up calls step the generator
\* alone (g, g, ...), and from the first post-warm-up call on the optimizer
\* steps alternate g, d, g, d, ...; the counts are as claimed.
C3_StepsAlternateAfterWarmup ==
    /\ C3_PerCall
    /\ C3_Counts
    /\ LET w == Cardinality({i \in DOMAIN calls : ~PostWarmup(calls[i])}) IN
       \A k \in DOMAIN OptimizerSteps :
          OptimizerSteps[k] =
             IF k <= w \/ (k - w) % 2 = 1 THEN "optimizer_g.step" ELSE "optimizer_d.step"

\* a warm-up call followed by two post-warm-up calls
C3_Witness ==
    /\ program = "pwg"
    /\ upc = "idle"
    /\ \E i \in DOMAIN calls : ~PostWarmup(calls[i])
    /\ Cardinality({i \in DOMAIN calls : PostWarmup(calls[i])}) >= 2

\* C4: the generator loss update_core back-propagates and reports is
\* sc_loss + mag_loss in warm-up and sc_loss + mag_loss + lambda_adv * adv_loss
\* after it; evaluate_core reports sc_loss + mag_loss + lambda_adv * adv_loss at
\* any iteration; the discriminator loss is real_loss + fake_loss.
C4_LossComposition ==
    /\ last.op = "update_core" =>
          LET b == last.batch
              o == last.out
              post == last.iteration > discriminator_train_start_steps
          IN  /\ o.gen_backward = o.losses_dict.generator_loss
              /\ o.losses_dict.generator_loss =
                    IF post THEN b.sc_loss + b.mag_loss + lambda_adv * b.adv_loss
                    ELSE b.sc_loss + b.mag_loss
              /\ post => /\ o.dis_backward = o.losses_dict.discriminator_loss
                         /\ o.losses_dict.discriminator_loss = b.real_loss + b.fake_loss
    /\ last.op = "evaluate_core" =>
          LET b == last.batch
              o == last.out
          IN  /\ o.losses_dict.generator_loss =
                    b.sc_loss + b.mag_loss + lambda_adv * b.adv_loss
              /\ o.losses_dict.discriminator_loss = b.real_loss + b.fake_loss

\* a post-warm-up update whose adversarial term counts, with lambda_adv > 1
C4_Witness ==
    /\ last.op = "update_core"
    /\ last.iteration > discriminator_train_start_steps
    /\ lambda_adv > 1
    /\ last.batch.adv_loss > 0 /\ last.batch.sc_loss > 0
    /\ last.out.gen_backward = last.batch.sc_loss + last.batch.mag_loss + lambda_adv * last.batch.adv_loss

\* ---- steps of the processes, told by what they change
EvaluateCoreStep == upc = "idle" /\ upc' = "eval_done"
UpdateCoreStep == upc = "idle" /\ upc' = "core_done"
ValidStep(r) == tr[r].pc = "batches" /\ tr'[r].pc = "validated"
TestStep(r) == job = "test" /\ tr[r].pc = "resumed" /\ tr'[r].pc = "tested"
TrainBatchStep(r) ==
    tr[r].pc = "batches" /\ tr'[r].pc = "batches" /\ tr'[r].batch_index = tr[r].batch_index + 1
NewEpochStep(r) == tr[r].pc = "saved" /\ tr'[r].pc = "epoch_top"
ResumeStep(r) == tr[r].pc = "ready" /\ tr'[r].pc = "resumed"
TrainBeginStep(r) == job = "train" /\ tr[r].pc = "resumed" /\ tr'[r].pc = "epoch_top"
EpochSaveStep(r) == tr[r].pc = "validated" /\ tr'[r].pc = "saved"
InterruptStep(r) == tr[r].pc \in TrainPcs /\ tr'[r].pc = "exited"
\* setup and resume_or_scratch, or a new Trainer object
BeforeLoopStep(r) == tr[r].pc \in {"new", "ready"} \/ tr'[r].pc = "new"
NoTraining(r) ==
    /\ tr'[r].backwards = tr[r].backwards
    /\ tr'[r].optimizer_steps = tr[r].optimizer_steps
    /\ tr'[r].lr_last_epoch = tr[r].lr_last_epoch
    /\ tr'[r].iteration = tr[r].iteration
    /\ tr'[r].epoch = tr[r].epoch

\* C5: evaluate_core, Trainer.valid and Tester.test call no backward, step or
\* clear no optimizer and no scheduler, and leave iteration and epoch as they
\* were, whenever they run.
C5_EvaluationIsForwardOnly ==
    [][ /\ EvaluateCoreStep =>
              /\ optim' = optim /\ state' = state /\ calls' = calls
              /\ last'.out.events = <<>>
              /\ last'.out.gen_backward = -1 /\ last'.out.dis_backward = -1
        /\ \A r \in Ranks : (ValidStep(r) \/ TestStep(r)) => NoTraining(r) ]_vars

\* a validation that ran after the batches of an epoch were trained
C5_Witness ==
    /\ program = "trainer"
    /\ \E r \in Ranks : /\ tr[r].pc = "validated" /\ tr[r].mode = "eval"
                        /\ tr[r].optimizer_steps >= NumBatches
                        /\ tr[r].iteration >= NumBatches

\* C6: in Trainer, iteration changes only by +1 in train_batch and epoch only
\* by +1 in new_epoch (setup and resume_or_scratch aside); save changes
\* neither; update_core writes neither state.iteration nor state.epoch.
C6_StateMutatedOnlyByTrainingLoop ==
    [][ /\ \A r \in Ranks :
              /\ TrainBatchStep(r) =>
                    tr'[r].iteration = tr[r].iteration + 1 /\ tr'[r].epoch = tr[r].epoch
              /\ NewEpochStep(r) =>
                    tr'[r].epoch = tr[r].epoch + 1 /\ tr'[r].iteration = tr[r].iteration
              /\ (~TrainBatchStep(r) /\ ~BeforeLoopStep(r)) =>
                    tr'[r].iteration = tr[r].iteration
              /\ (~NewEpochStep(r) /\ ~BeforeLoopStep(r)) =>
                    tr'[r].epoch = tr[r].epoch
              /\ (TrainBeginStep(r) \/ EpochSaveStep(r) \/ InterruptStep(r)) =>
                    tr'[r].iteration = tr[r].iteration /\ tr'[r].epoch = tr[r].epoch
        /\ UpdateCoreStep => state' = state ]_vars

\* a process that trained the batches of an epoch and began the next epoch
C6_Witness ==
    /\ program = "trainer"
    /\ \E r \in Ranks : /\ tr[r].pc = "batches" /\ tr[r].epoch = 1
                        /\ tr[r].iteration = NumBatches + 1

\* C7 (as claimed): a process whose validation of the epoch is complete goes on
\* (unless interrupted) to call save for that epoch, once, before the epoch
\* counter changes; on rank 0, where save writes, the record carries the epoch
\* as tag and val_loss, F1, step, epoch and lr as infos.
C7_EpochCheckpointAfterValidation ==
    [][ \A r \in Ranks :
          (tr[r].pc = "validated" /\ tr'[r].pc \notin {"validated", "exited"}) =>
              /\ tr'[r].pc = "saved"
              /\ tr'[r].epoch = tr[r].epoch
              /\ tr'[r].save_calls = Append(tr[r].save_calls, "epoch")
              /\ r = 0 =>
                    checkpoints' = Append(checkpoints,
                        [tag |-> IntTag(tr[r].epoch),
                         infos |-> [val_loss |-> tr[r].total_loss, F1 |-> tr[r].F1_score,
                                    step |-> tr[r].iteration, epoch |-> tr[r].epoch,
                                    lr |-> get_lr(tr[r])],
                         rank |-> 0, run |-> run, site |-> "epoch"]) ]_vars

\* what resume_or_scratch and save do, common to both readings of C8
C8_ResumeRestoresWhatSaveRecorded ==
    /\ \A r \in Ranks : ResumeStep(r) =>
          IF checkpoints # <<>>
          THEN /\ tr'[r].iteration = checkpoints[Len(checkpoints)].infos.step
               /\ tr'[r].epoch = checkpoints[Len(checkpoints)].infos.epoch
               /\ tr'[r].from_scratch = "False"
          ELSE /\ tr'[r].iteration = 0 /\ tr'[r].epoch = 0
               /\ tr'[r].from_scratch = "True"
    /\ checkpoints' # checkpoints =>
          /\ Len(checkpoints') = Len(checkpoints) + 1
          /\ LET c == checkpoints'[Len(checkpoints')] IN
                /\ c.rank \in Ranks
                /\ c.infos.step = tr[c.rank].iteration
                /\ c.infos.epoch = tr[c.rank].epoch
InitCheckpointWritten(r) ==
    /\ Len(checkpoints') = Len(checkpoints) + 1
    /\ LET c == checkpoints'[Len(checkpoints')] IN
          /\ c.tag = InitTag /\ c.rank = r
          /\ c.infos.step = 0 /\ c.infos.epoch = 0

\* C8: resume_or_scratch sets iteration and epoch to the step and epoch save
\* recorded in the checkpoint loaded, or to 0 and 0 when there is none; train
\* calls save(tag="init") if and only if it started from scratch, before any
\* batch is trained, and the record this writes (on rank 0, where save
\* writes) has step 0 and epoch 0.
C8_ResumeOrScratch ==
    [][ /\ C8_ResumeRestoresWhatSaveRecorded
        /\ \A r \in Ranks : TrainBeginStep(r) =>
              /\ tr[r].optimizer_steps = 0 /\ tr[r].backwards = 0
              /\ IF tr[r].from_scratch = "True"
                 THEN /\ tr'[r].save_calls = Append(tr[r].save_calls, "init")
                      /\ r = 0 => InitCheckpointWritten(r)
                 ELSE /\ tr'[r].save_calls = tr[r].save_calls
                      /\ checkpoints' = checkpoints ]_vars

\* the second job: rank 0 resumed from the checkpoint an interrupt left at a
\* step > 0, in a directory that holds the "init" checkpoint of the first job
C8_Witness ==
    /\ program = "trainer" /\ run = 2 /\ job = "train"
    /\ tr[0].pc = "epoch_top" /\ tr[0].from_scratch = "False"
    /\ tr[0].iteration > 0
    /\ tr[0].iteration = checkpoints[Len(checkpoints)].infos.step
    /\ checkpoints[1].tag = InitTag /\ checkpoints[1].infos.step = 0
    /\ Len(checkpoints) = 2

\* C9 (as claimed), for every value of the three keys: a process about to
\* train the next batch of a pass has not reached max_iteration, and, if it
\* has trained a batch since the pass began (so has neither validated nor
\* saved since), its iteration is no multiple of valid_interval or
\* save_interval.
C9_IntervalsTriggerValidSaveStop ==
    \A valid_interval, save_interval, max_iteration \in 1..MaxInterval :
      \A r \in Ranks :
        (program = "trainer" /\ job = "train" /\ tr[r].pc = "batches"
            /\ tr[r].batch_index < NumBatches) =>
            /\ tr[r].iteration < max_iteration
            /\ tr[r].batch_index > 0 =>
                  /\ tr[r].iteration % valid_interval # 0
                  /\ tr[r].iteration % save_interval # 0

\* every shared output has rank 0 as its only writer, no other rank has a
\* visualizer
SingleWriter ==
    /\ \A i \in DOMAIN checkpoints : checkpoints[i].rank = 0
    /\ \A i \in DOMAIN outputs.config_yaml : outputs.config_yaml[i] = 0
    /\ \A i \in DOMAIN outputs.result_file : outputs.result_file[i] = 0
    /\ \A r \in Ranks \ {0} : tr[r].visualizer = "None"

\* C10: only rank 0 has a visualizer, writes checkpoints, dumps config.yaml and
\* runs test; a step of any other rank that calls save, dump_config,
\* setup_visualizer, destory or test leaves the output directory and its
\* visualizer as they were, and test leaves its model alone, however the
\* ranks interleave.
C10_RankZeroIsTheOnlyWriter ==
    [][ /\ SingleWriter'
        /\ \A r \in Ranks \ {0} :
              (run' = run /\ tr'[r] # tr[r]) =>
                  /\ checkpoints' = checkpoints
                  /\ outputs' = outputs
                  /\ tr'[r].visualizer = tr[r].visualizer
                  /\ TestStep(r) => tr'[r] = [tr[r] EXCEPT !.pc = "tested"] ]_vars

\* a train job in which the other rank went through setup, called save twice
\* and left through destory, while rank 0 alone wrote and owns the visualizer
C10_Witness ==
    /\ program = "trainer" /\ job = "train"
    /\ tr[peer].pc = "done" /\ Len(tr[peer].save_calls) >= 2
    /\ tr[peer].visualizer = "None" /\ tr[0].visualizer = "closed"
    /\ Len(checkpoints) > 0 /\ outputs.config_yaml = <<0>>

\* ---- how Trainer.run ends
RunLeavesStep(r) == tr[r].pc \in TrainPcs /\ tr'[r].pc \in {"done", "crashed", "exited"}
TrainReturnsStep(r) == tr[r].pc = "epoch_top" /\ tr'[r].pc = "done"

\* C11: whichever way train() ends under run (it returns, an exception leaves
\* it, or KeyboardInterrupt interrupts it), the process leaves through
\* destory, so the visualizer rank 0 opened in setup is closed and was open
\* until then; "Training Done." is logged if and only if train() returned,
\* never before run ends, and a process that ended any other way never has it.
C11_RunClosesVisualizerOnEveryExit ==
    [][ \A r \in Ranks :
          /\ RunLeavesStep(r) =>
                /\ tr'[r].visualizer = destory(tr[r], r).visualizer
                /\ r = 0 => tr[r].visualizer = "open" /\ tr'[r].visualizer = "closed"
                /\ tr'[r].training_done_logged <=> TrainReturnsStep(r)
          /\ tr'[r].pc \in {"crashed", "exited"} \cup TrainPcs =>
                ~tr'[r].training_done_logged
          /\ (job' = "train" /\ tr'[r].pc \in TrainPcs /\ r = 0) =>
                tr'[r].visualizer = "open"
          /\ tr'[r].pc = "done" =>
                tr'[r].training_done_logged /\ tr'[r].visualizer # "open" ]_vars

\* rank 0 left train() by the exception with its visualizer closed and no
\* "Training Done.", in a job where the other rank's train() returned; its
\* earlier job had ended by KeyboardInterrupt
C11_Witness ==
    /\ program = "trainer" /\ job = "train" /\ run = 2
    /\ tr[0].pc = "crashed" /\ tr[0].visualizer = "closed"
    /\ ~tr[0].training_done_logged
    /\ tr[peer].pc = "done" /\ tr[peer].training_done_logged
    /\ \E i \in DOMAIN checkpoints : checkpoints[i].site = "interrupt"

\* ---- resumed runs
\* the process resumed from a checkpoint that records a whole number of
\* trained epochs: all the batches of epochs 0..start_epoch, which is what
\* save records at line 260 for epoch start_epoch
ResumedAfterEpoch(r) ==
    /\ tr[r].from_scratch = "False"
    /\ tr[r].start_iteration = (tr[r].start_epoch + 1) * NumBatches

\* C12 (as claimed): when train() of a process that resumed from the
\* checkpoint taken after the batches of an epoch returns, its counters are
\* those of a run never interrupted, epoch = n_epoch and
\* iteration = n_epoch * NumBatches, so that the batches trained before and
\* after the stop make every epoch 0..n_epoch-1 once.
C12_ResumedRunEndsAsUninterrupted ==
    \A r \in Ranks :
        (program = "trainer" /\ job = "train" /\ tr[r].pc = "done" /\ ResumedAfterEpoch(r)) =>
            /\ tr[r].epoch = config.n_epoch
            /\ tr[r].iteration = config.n_epoch * NumBatches
            /\ tr[r].start_iteration + tr[r].optimizer_steps = config.n_epoch * NumBatches

\* ---- the epoch loop
IsEpochSave(site) == site = "epoch"
\* passes of the epoch body the process has completed down to line 260
EpochSaves(self) == Len(SelectSeq(self.save_calls, IsEpochSave))
BodyPcs == {"batches", "validated", "saved"}
\* how far the process is inside the pass it is in
BodyPosition(self) ==
    CASE self.pc = "epoch_top" -> 0
      [] self.pc = "batches"   -> 1 + self.batch_index
      [] self.pc = "validated" -> NumBatches + 2
      [] self.pc = "saved"     -> NumBatches + 3
\* steps train() has left to take at most: it is never negative inside the
\* loop and every step of the loop lowers it
StepsLeft(self) == (config.n_epoch - self.epoch) * (NumBatches + 4) - BodyPosition(self)
LoopPcs == BodyPcs \cup {"epoch_top"}

\* C13: the epoch body runs only while epoch < n_epoch; each pass trains the
\* NumBatches batches of the loader and ends with epoch + 1; every step of the
\* loop lowers StepsLeft, which is never negative, so train() ends; when a
\* from-scratch train() has returned it made exactly n_epoch passes and
\* epoch = n_epoch; a process whose starting epoch is >= n_epoch trains no
\* batch and saves no epoch checkpoint.
C13_TrainRunsNEpochPassesAndEnds ==
    [][ job = "train" => \A r \in Ranks :
          /\ tr'[r].pc \in BodyPcs => tr'[r].epoch < config.n_epoch
          /\ tr'[r].pc \in LoopPcs => StepsLeft(tr'[r]) >= 0
          /\ (tr[r].pc \in LoopPcs /\ tr'[r].pc \in LoopPcs /\ tr'[r] # tr[r]) =>
                StepsLeft(tr'[r]) < StepsLeft(tr[r])
          /\ NewEpochStep(r) =>
                /\ tr'[r].epoch = tr[r].epoch + 1
                /\ tr'[r].epoch = tr[r].start_epoch + EpochSaves(tr[r])
                /\ tr'[r].optimizer_steps = EpochSaves(tr[r]) * NumBatches
          /\ (tr'[r].pc = "done" /\ tr'[r].from_scratch = "True") =>
                /\ tr'[r].epoch = config.n_epoch
                /\ EpochSaves(tr'[r]) = config.n_epoch
                /\ tr'[r].optimizer_steps = config.n_epoch * NumBatches
          /\ (tr'[r].start_epoch >= config.n_epoch) =>
                /\ tr'[r].optimizer_steps = 0
                /\ EpochSaves(tr'[r]) = 0
                /\ tr'[r].pc \notin BodyPcs
                /\ \A i \in DOMAIN checkpoints' :
                      (checkpoints'[i].run = run' /\ checkpoints'[i].rank = r) =>
                          checkpoints'[i].site # "epoch" ]_vars

\* a from-scratch train() that returned after MaxEpoch passes
C13_Witness ==
    /\ program = "trainer" /\ job = "train" /\ config.n_epoch = MaxEpoch
    /\ \E r \in Ranks :
          /\ tr[r].pc = "done" /\ tr[r].from_scratch = "True"
          /\ tr[r].epoch = MaxEpoch /\ EpochSaves(tr[r]) = MaxEpoch
          /\ tr[r].optimizer_steps = MaxEpoch * NumBatches

\* the record save() writes, where it writes, when the process calls it at
\* line 260
EpochRecord(self) ==
    save(self, 0, IntTag(self.epoch),
         [NoInfos EXCEPT !.val_loss = self.total_loss, !.F1 = self.F1_score],
         <<>>, "epoch")[1]

C15_SchedulerPositionIsEpochsCompleted ==
    \A r \in Ranks :
        (program = "trainer" /\ job = "train" /\ tr[r].pc = "batches"
            /\ tr[r].batch_index = 0) =>
            tr[r].lr_last_epoch = tr[r].epoch
====
